---- MODULE Spec2Model ----
(***************************************************************************)
(* tmuxui: the hierarchical selection / synchronisation engine (app.rs),   *)
(* the tmux command layer (tmux.rs) and the key dispatcher (main.rs),      *)
(* running against a tmux server that other clients change concurrently.   *)
(***************************************************************************)
EXTENDS Integers, Sequences, FiniteSets, TLC

(* ----------------------------- bounds ---------------------------------- *)
\* most sessions the modelled tmux server holds
MaxSessions == 2
\* most windows one session holds
MaxWindows == 2
\* most panes the whole server holds
MaxPanes == 3
\* longest text the input buffer (and so a name) holds
MaxBuf == 1
\* longest list the cursor helpers are tried on by themselves
NavLen == 8
\* longest output the readers are tried on by themselves
OutLen == 6
\* longest text the submission of a prompt is tried on by itself
SubmitLen == 3

(* ----------------------------- values ---------------------------------- *)
\* Option<usize>::None of ListState::selected()
None == -1

\* the field delimiter of the read format strings
Delim == "|"

\* the line terminator of tmux's output, and the whitespace str::trim() drops
Newline == "\n"
White == {" ", Newline}

\* the characters a key event can type; a text is a sequence of characters
Chars == {"a", Delim, " "}

\* the name tmux gives a window created without one
DefaultName == <<"a">>

\* the empty text
NoName == <<>>

VARIABLES
    sessions, windows, panes,          \* App.sessions / windows / panes
    session_list_state,                \* App.session_list_state.selected()
    window_list_state,                 \* App.window_list_state.selected()
    pane_list_state,                   \* App.pane_list_state.selected()
    focus, state,                      \* App.focus, App.state
    input_buffer, should_quit,         \* App.input_buffer, App.should_quit
    target_attach,                     \* App.target_attach
    event,                             \* the key event this loop iteration read
    cmds,                              \* the tmux invocations of its handler
    found,                             \* the cursors its refresh was handed
    raced,                             \* another client acted during its reads
    listed                             \* what its refresh_all had to show

vars == <<sessions, windows, panes, session_list_state, window_list_state,
          pane_list_state, focus, state, input_buffer, should_quit,
          target_attach, event, cmds, found, raced, listed>>

(* --------------------------- text helpers ------------------------------ *)
Range(s) == {s[i] : i \in 1..Len(s)}

\* the least number of 1..n not in used (0 when all are)
Fresh(used, n) ==
    IF \E k \in 1..n : k \notin used
    THEN CHOOSE k \in 1..n : k \notin used /\ \A j \in 1..(k-1) : j \in used
    ELSE 0

\* str::trim(): drop leading and trailing whitespace
TrimStart(s) ==
    LET rest[t \in Seq(STRING)] ==
            IF t # <<>> /\ Head(t) \in White THEN rest[Tail(t)] ELSE t
    IN rest[s]

TrimEnd(s) ==
    LET rest[t \in Seq(STRING)] ==
            IF t # <<>> /\ t[Len(t)] \in White
            THEN rest[SubSeq(t, 1, Len(t) - 1)] ELSE t
    IN rest[s]

Trim(s) == TrimEnd(TrimStart(s))

\* the parts of s between the occurrences of character d
SplitOn(s, d) ==
    LET parts[t \in Seq(STRING)] ==
            IF \E i \in 1..Len(t) : t[i] = d
            THEN LET i == CHOOSE i \in 1..Len(t) :
                              t[i] = d /\ \A j \in 1..(i-1) : t[j] # d
                 IN <<SubSeq(t, 1, i - 1)>> \o parts[SubSeq(t, i + 1, Len(t))]
            ELSE <<t>>
    IN parts[s]

\* str::split('|')
Split(line) == SplitOn(line, Delim)

\* str::lines(): the text between line terminators; the terminator of the
\* last line is optional.  (CHOOSE over {e : x \in {v}} names v as x in e,
\* with v worked out once.)
str_lines(s) ==
    CHOOSE ls \in {IF parts[Len(parts)] = <<>>
                   THEN SubSeq(parts, 1, Len(parts) - 1)
                   ELSE parts : parts \in {SplitOn(s, Newline)}} : TRUE

\* parts.get(k - 1).unwrap_or(&"")
Part(parts, k) == IF k <= Len(parts) THEN parts[k] ELSE NoName

\* parts.get(k - 1).unwrap_or(&"0")
PartOrZero(parts, k) == IF k <= Len(parts) THEN parts[k] ELSE <<"0">>

\* the names other clients give their sessions
Names == {<<"a">>, <<"b">>}

(* --------------------------- the tmux server --------------------------- *)
\* server: the sessions [id, name, windows] in listing order (ascending id);
\* a window is [id, name, panes] and panes the ids of its panes, ascending.
\* Ids are never shared: a window id is 10 * session id + k, a pane id is
\* 10 * window id + j.  A command names its target by the id's text.

IdText(n) == <<ToString(n)>>

AllWindows(srv) == UNION {Range(srv[i].windows) : i \in 1..Len(srv)}
AllPanes(srv) == UNION {Range(w.panes) : w \in AllWindows(srv)}
PaneCount(srv) == Cardinality(AllPanes(srv))

HasSessionId(srv, t) == \E i \in 1..Len(srv) : IdText(srv[i].id) = t
HasSessionName(srv, name) == \E i \in 1..Len(srv) : srv[i].name = name
HasWindow(srv, t) == \E w \in AllWindows(srv) : IdText(w.id) = t
HasPane(srv, t) == \E p \in AllPanes(srv) : IdText(p) = t

\* s with record x put where its id keeps the listing ascending
Insert(s, x) ==
    LET below(y) == y.id < x.id
        above(y) == y.id > x.id
    IN SelectSeq(s, below) \o <<x>> \o SelectSeq(s, above)

\* the same for a listing of plain ids
InsertId(s, x) ==
    LET below(y) == y < x
        above(y) == y > x
    IN SelectSeq(s, below) \o <<x>> \o SelectSeq(s, above)

\* tmux destroys a window with its last pane and a session with its last window
Prune(srv) ==
    LET live(w) == w.panes # <<>>
        kept == [i \in 1..Len(srv) |->
                    [srv[i] EXCEPT !.windows = SelectSeq(srv[i].windows, live)]]
        open(s) == s.windows # <<>>
    IN SelectSeq(kept, open)

\* what one tmux command does: [ok |-> exit status 0, srv |-> the server after]
Done(srv) == [ok |-> TRUE, srv |-> srv]
Refused(srv) == [ok |-> FALSE, srv |-> srv]

NewSession(srv, name) ==
    IF Len(srv) < MaxSessions /\ PaneCount(srv) < MaxPanes
       /\ name # NoName /\ ~HasSessionName(srv, name)
    THEN LET sid == Fresh({srv[i].id : i \in 1..Len(srv)}, MaxSessions)
             wid == 10 * sid + 1
         IN Done(Insert(srv, [id |-> sid, name |-> name,
                windows |-> <<[id |-> wid, name |-> DefaultName,
                               panes |-> <<10 * wid + 1>>]>>]))
    ELSE Refused(srv)

RenameSession(srv, old, new) ==
    IF HasSessionName(srv, old) /\ new # NoName /\ ~HasSessionName(srv, new)
    THEN Done([i \in 1..Len(srv) |->
                  IF srv[i].name = old THEN [srv[i] EXCEPT !.name = new]
                  ELSE srv[i]])
    ELSE Refused(srv)

KillSession(srv, name) ==
    IF HasSessionName(srv, name)
    THEN LET other(s) == s.name # name IN Done(SelectSeq(srv, other))
    ELSE Refused(srv)

NewWindow(srv, t, name) ==
    IF /\ HasSessionId(srv, t) /\ PaneCount(srv) < MaxPanes
       /\ \A i \in 1..Len(srv) :
             IdText(srv[i].id) = t => Len(srv[i].windows) < MaxWindows
    THEN Done([i \in 1..Len(srv) |->
                  IF IdText(srv[i].id) = t
                  THEN LET sid == srv[i].id
                           k == Fresh({w.id - 10 * sid : w \in Range(srv[i].windows)},
                                      MaxWindows)
                           wid == 10 * sid + k
                       IN [srv[i] EXCEPT !.windows = Insert(@,
                              [id |-> wid, name |-> name, panes |-> <<10 * wid + 1>>])]
                  ELSE srv[i]])
    ELSE Refused(srv)

\* the server with every window w replaced by f[w]
MapWindows(srv, f) ==
    [i \in 1..Len(srv) |->
        [srv[i] EXCEPT !.windows = [j \in 1..Len(srv[i].windows) |->
                                       f[srv[i].windows[j]]]]]

RenameWindow(srv, t, name) ==
    IF HasWindow(srv, t) /\ name # NoName
    THEN LET f == [w \in AllWindows(srv) |->
                      IF IdText(w.id) = t THEN [w EXCEPT !.name = name] ELSE w]
         IN Done(MapWindows(srv, f))
    ELSE Refused(srv)

KillWindow(srv, t) ==
    IF HasWindow(srv, t)
    THEN LET f == [w \in AllWindows(srv) |->
                      IF IdText(w.id) = t THEN [w EXCEPT !.panes = <<>>] ELSE w]
         IN Done(Prune(MapWindows(srv, f)))
    ELSE Refused(srv)

SplitWindow(srv, t) ==
    IF HasWindow(srv, t) /\ PaneCount(srv) < MaxPanes
    THEN LET f == [w \in AllWindows(srv) |->
                      IF IdText(w.id) = t
                      THEN [w EXCEPT !.panes = InsertId(@, 10 * w.id +
                               Fresh({p - 10 * w.id : p \in Range(w.panes)}, MaxPanes))]
                      ELSE w]
         IN Done(MapWindows(srv, f))
    ELSE Refused(srv)

KillPane(srv, t) ==
    IF HasPane(srv, t)
    THEN LET other(p) == IdText(p) # t
             f == [w \in AllWindows(srv) |-> [w EXCEPT !.panes = SelectSeq(@, other)]]
         IN Done(Prune(MapWindows(srv, f)))
    ELSE Refused(srv)

SelectWindow(srv, t) == IF HasWindow(srv, t) THEN Done(srv) ELSE Refused(srv)
SelectPane(srv, t) == IF HasPane(srv, t) THEN Done(srv) ELSE Refused(srv)

\* The servers a handler can find.  Other clients run any commands between two
\* key events, so a handler meets a server unrelated to the one the handler
\* before it left: any server that creations build from nothing, up to the
\* bounds, each session taking a name that is free.
FreeName(srv) ==
    IF \E n \in Names : ~HasSessionName(srv, n)
    THEN CHOOSE n \in Names : ~HasSessionName(srv, n)
    ELSE NoName

Grow(srv) ==
    {r.srv : r \in
        {NewSession(srv, FreeName(srv))}
        \cup {NewWindow(srv, IdText(s.id), DefaultName) : s \in Range(srv)}
        \cup {SplitWindow(srv, IdText(w.id)) : w \in AllWindows(srv)}}

RECURSIVE Closure(_)
Closure(S) ==
    LET T == S \cup UNION {Grow(srv) : srv \in S}
    IN IF T = S THEN S ELSE Closure(T)

Servers == Closure({<<>>})

\* The lines tmux prints for the read format strings: the fields joined by the
\* delimiter.  Of each line the id and the name are modelled; the fields after
\* them, which no handler reads, are left out of lines and records.
SessionLine(s) == IdText(s.id) \o <<Delim>> \o s.name
WindowLine(w) == IdText(w.id) \o <<Delim>> \o w.name
PaneLine(p) == IdText(p)

\* the lines as tmux writes them to stdout, each with its terminator
Stdout(lines) ==
    LET text[ls \in Seq(Seq(STRING))] ==
            IF ls = <<>> THEN <<>>
            ELSE Head(ls) \o <<Newline>> \o text[Tail(ls)]
    IN text[lines]

\* the listings: [ok |-> exit status 0, out |-> the text printed]; with no
\* session left there is no server to answer
ListSessions(srv) ==
    [ok |-> srv # <<>>,
     out |-> Stdout([i \in 1..Len(srv) |-> SessionLine(srv[i])])]

ListWindows(srv, t) ==
    IF HasSessionId(srv, t)
    THEN LET s == CHOOSE s \in Range(srv) : IdText(s.id) = t
         IN [ok |-> TRUE,
             out |-> Stdout([j \in 1..Len(s.windows) |->
                                WindowLine(s.windows[j])])]
    ELSE [ok |-> FALSE, out |-> <<>>]

ListPanes(srv, t) ==
    IF HasWindow(srv, t)
    THEN LET w == CHOOSE w \in AllWindows(srv) : IdText(w.id) = t
         IN [ok |-> TRUE,
             out |-> Stdout([j \in 1..Len(w.panes) |-> PaneLine(w.panes[j])])]
    ELSE [ok |-> FALSE, out |-> <<>>]

(* ------------------------------ tmux.rs -------------------------------- *)
\* one tmux invocation in a handler's log: the command, its -t target, its
\* other argument and whether it returned Some
Cmd(c, target, arg, ok) == [cmd |-> c, target |-> target, arg |-> arg, ok |-> ok]

\* run_tmux: None when the binary cannot be launched (up = FALSE) or exits
\* non-zero, else Some(stdout trimmed)
run_tmux(res, up) ==
    IF up /\ res.ok THEN [ok |-> TRUE, out |-> Trim(res.out)]
    ELSE [ok |-> FALSE, out |-> <<>>]

\* raw.lines().filter(|l| !l.is_empty())
Lines(out) == LET full(l) == l # <<>> IN SelectSeq(str_lines(out), full)

\* the records built from the parts of one line
Session(parts) ==
    [id |-> Part(parts, 1), name |-> Part(parts, 2),
     count |-> PartOrZero(parts, 3), created |-> Part(parts, 4)]

\* faulty variant: a window is active unless its flag reads "0"
Window_active_unless_zero(parts) ==
    [id |-> Part(parts, 1), name |-> Part(parts, 2),
     active |-> (PartOrZero(parts, 3) # <<"0">>), layout |-> Part(parts, 4)]

Window(parts) ==
    [id |-> Part(parts, 1), name |-> Part(parts, 2),
     active |-> (PartOrZero(parts, 3) = <<"1">>), layout |-> Part(parts, 4)]

Pane(parts) ==
    [id |-> Part(parts, 1), width |-> Part(parts, 2), height |-> Part(parts, 3),
     current_path |-> Part(parts, 4), current_command |-> Part(parts, 5),
     active |-> (PartOrZero(parts, 6) = <<"1">>)]

\* the bodies of get_sessions / get_windows / get_panes: nothing when the
\* command returned None, else one record per line that is not empty
parse_sessions(r) ==
    IF ~r.ok THEN <<>>
    ELSE CHOOSE rs \in {[i \in 1..Len(ls) |-> Session(Split(ls[i]))] :
                        ls \in {Lines(r.out)}} : TRUE

parse_windows(r) ==
    IF ~r.ok THEN <<>>
    ELSE CHOOSE rs \in {[i \in 1..Len(ls) |-> Window(Split(ls[i]))] :
                        ls \in {Lines(r.out)}} : TRUE

parse_panes(r) ==
    IF ~r.ok THEN <<>>
    ELSE CHOOSE rs \in {[i \in 1..Len(ls) |-> Pane(Split(ls[i]))] :
                        ls \in {Lines(r.out)}} : TRUE

\* get_sessions / get_windows / get_panes as the App keeps them: of each
\* record the fields its handlers read (the id, and the name where there is
\* one)
get_sessions(r) ==
    CHOOSE l \in {[i \in 1..Len(rs) |-> [id |-> rs[i].id, name |-> rs[i].name]] :
                  rs \in {parse_sessions(r)}} : TRUE

get_windows(r) ==
    CHOOSE l \in {[i \in 1..Len(rs) |-> [id |-> rs[i].id, name |-> rs[i].name]] :
                  rs \in {parse_windows(r)}} : TRUE

get_panes(r) ==
    CHOOSE l \in {[i \in 1..Len(rs) |-> [id |-> rs[i].id]] :
                  rs \in {parse_panes(r)}} : TRUE

(* ------------------------------- app.rs -------------------------------- *)
Focuses == {"Sessions", "Windows", "Panes"}

InputModes == {"InputNewSession", "InputRenameSession",
               "InputNewWindow", "InputRenameWindow"}

ConfirmModes == {"ConfirmDeleteSession", "ConfirmDeleteWindow", "ConfirmDeletePane"}

\* the App struct, as one record
App ==
    [sessions |-> sessions, windows |-> windows, panes |-> panes,
     session_list_state |-> session_list_state,
     window_list_state |-> window_list_state,
     pane_list_state |-> pane_list_state,
     focus |-> focus, state |-> state, input_buffer |-> input_buffer,
     should_quit |-> should_quit, target_attach |-> target_attach]

\* faulty variant: the last item is the end of the way down
next_item_no_wrap(sel, len) ==
    IF len = 0 THEN sel
    ELSE IF sel # None THEN (IF sel >= len - 1 THEN sel ELSE sel + 1)
    ELSE 0

\* faulty variant: the wrap comes one item late
next_item_late_wrap(sel, len) ==
    IF len = 0 THEN sel
    ELSE IF sel # None THEN (IF sel >= len THEN 0 ELSE sel + 1)
    ELSE 0

next_item(sel, len) ==
    IF len = 0 THEN sel
    ELSE IF sel # None THEN (IF sel >= len - 1 THEN 0 ELSE sel + 1)
    ELSE 0

\* faulty variant: the step up from the second item wraps as well
prev_item_early_wrap(sel, len) ==
    IF len = 0 THEN sel
    ELSE IF sel # None THEN (IF sel <= 1 THEN len - 1 ELSE sel - 1)
    ELSE 0

prev_item(sel, len) ==
    IF len = 0 THEN sel
    ELSE IF sel # None THEN (IF sel = 0 THEN len - 1 ELSE sel - 1)
    ELSE 0

\* faulty variant: an index past the end is left where it is
validate_no_clamp(sel, len) ==
    IF len = 0 THEN None
    ELSE IF sel # None THEN sel
    ELSE 0

\* faulty variant: a repaired cursor always restarts at the first item
validate_reset(sel, len) == IF len = 0 THEN None ELSE 0

\* faulty variant: an index past the end falls back to the first item
validate_clamp_first(sel, len) ==
    IF len = 0 THEN None
    ELSE IF sel # None THEN (IF sel >= len THEN 0 ELSE sel)
    ELSE 0

validate_list_selection(sel, len) ==
    IF len = 0 THEN None
    ELSE IF sel # None THEN (IF sel >= len THEN len - 1 ELSE sel)
    ELSE 0

\* Vec::get over ListState::selected(): is there an item under the cursor
Selected(list, sel) == sel # None /\ sel < Len(list)
\* the item (only where Selected holds; the cursor counts from 0)
Item(list, sel) == list[sel + 1]

get_selected_session(a) == Selected(a.sessions, a.session_list_state)
get_selected_window(a) == Selected(a.windows, a.window_list_state)
get_selected_pane(a) == Selected(a.panes, a.pane_list_state)

\* faulty variant: the sessions read are merged into the ones already shown
refresh_sessions_merge(a, r1) ==
    LET new == get_sessions(r1)
        gone(x) == \A i \in 1..Len(new) : new[i].id # x.id
        ses == new \o SelectSeq(a.sessions, gone)
    IN [a EXCEPT !.sessions = ses,
                 !.session_list_state = validate_list_selection(@, Len(ses))]

\* refresh_all, step 1: the sessions and their cursor
refresh_sessions(a, r1) ==
    CHOOSE a1 \in {[a EXCEPT !.sessions = ses,
                             !.session_list_state =
                                 validate_list_selection(@, Len(ses))] :
                   ses \in {get_sessions(r1)}} : TRUE

\* faulty variant: a failed read leaves the windows of the last refresh
refresh_windows_keep_on_failure(a, r2) ==
    LET win == IF get_selected_session(a)
               THEN (IF r2.ok THEN get_windows(r2) ELSE a.windows)
               ELSE <<>>
    IN [a EXCEPT !.windows = win,
                 !.window_list_state = validate_list_selection(@, Len(win))]

\* faulty variant: with no session selected the windows are left as they were
refresh_windows_no_clear(a, r2) ==
    LET win == IF get_selected_session(a) THEN get_windows(r2) ELSE a.windows
    IN [a EXCEPT !.windows = win,
                 !.window_list_state = validate_list_selection(@, Len(win))]

\* faulty variant: the window cursor restarts at the first window whenever
\* the windows are read
refresh_windows_restart(a, r2) ==
    CHOOSE a2 \in {[a EXCEPT !.windows = win,
                             !.window_list_state =
                                 IF win = <<>> THEN None ELSE 0] :
                   win \in {IF get_selected_session(a) THEN get_windows(r2)
                            ELSE <<>>}} : TRUE

\* refresh_all, step 2: the windows of the session under the cursor
refresh_windows(a, r2) ==
    CHOOSE a2 \in {[a EXCEPT !.windows = win,
                             !.window_list_state =
                                 validate_list_selection(@, Len(win))] :
                   win \in {IF get_selected_session(a) THEN get_windows(r2)
                            ELSE <<>>}} : TRUE

\* refresh_all, step 3: the panes of the window under the cursor
refresh_panes(a, r3) ==
    CHOOSE a3 \in {[a EXCEPT !.panes = pan,
                             !.pane_list_state =
                                 validate_list_selection(@, Len(pan))] :
                   pan \in {IF get_selected_window(a) THEN get_panes(r3)
                            ELSE <<>>}} : TRUE

\* the three cursors of a
Cursors(a) ==
    [s |-> a.session_list_state, w |-> a.window_list_state, p |-> a.pane_list_state]

NoCursors == [s |-> None, w |-> None, p |-> None]

\* faulty variant: the windows are read for the session that was selected
\* before the sessions were read again
refresh_all_stale_scope(a, e, up) ==
    LET r1 == run_tmux(ListSessions(e[1]), up[1])
        a1 == refresh_sessions(a, r1)
        sid == IF get_selected_session(a)
               THEN Item(a.sessions, a.session_list_state).id
               ELSE Item(a1.sessions, a1.session_list_state).id
        r2 == run_tmux(ListWindows(e[2], sid), up[2])
        a2 == refresh_windows(a1, r2)
        wid == Item(a2.windows, a2.window_list_state).id
        r3 == run_tmux(ListPanes(e[3], wid), up[3])
        a3 == refresh_panes(a2, r3)
    IN [app |-> a3, from |-> Cursors(a),
        cmds |-> <<Cmd("list-sessions", NoName, NoName, r1.ok)>>
                 \o (IF get_selected_session(a1)
                     THEN <<Cmd("list-windows", sid, NoName, r2.ok)>>
                     ELSE <<>>)
                 \o (IF get_selected_window(a2)
                     THEN <<Cmd("list-panes", wid, NoName, r3.ok)>>
                     ELSE <<>>)]

\* refresh_all against the server seen by each read (e[1], e[2], e[3]), each
\* invocation launching or not (up[1], up[2], up[3])
refresh_all(a, e, up) ==
    LET r1 == run_tmux(ListSessions(e[1]), up[1])
        a1 == refresh_sessions(a, r1)
        sid == Item(a1.sessions, a1.session_list_state).id
        r2 == run_tmux(ListWindows(e[2], sid), up[2])
        a2 == refresh_windows(a1, r2)
        wid == Item(a2.windows, a2.window_list_state).id
        r3 == run_tmux(ListPanes(e[3], wid), up[3])
        a3 == refresh_panes(a2, r3)
    IN [app |-> a3, from |-> Cursors(a),
        cmds |-> <<Cmd("list-sessions", NoName, NoName, r1.ok)>>
                 \o (IF get_selected_session(a1)
                     THEN <<Cmd("list-windows", sid, NoName, r2.ok)>>
                     ELSE <<>>)
                 \o (IF get_selected_window(a2)
                     THEN <<Cmd("list-panes", wid, NoName, r3.ok)>>
                     ELSE <<>>)]

\* faulty variant: the panes are read for the first window of the list
refresh_panes_only_first_window(a, srv, up) ==
    IF get_selected_window(a)
    THEN LET wid == a.windows[1].id
         IN CHOOSE res \in
               {[app |-> [a EXCEPT !.panes = get_panes(r),
                                   !.pane_list_state =
                                       validate_list_selection(
                                           @, Len(get_panes(r)))],
                 from |-> Cursors(a),
                 cmds |-> <<Cmd("list-panes", wid, NoName, r.ok)>>] :
                r \in {run_tmux(ListPanes(srv, wid), up)}} : TRUE
    ELSE [app |-> a, from |-> NoCursors, cmds |-> <<>>]

\* refresh_panes_only against server srv
refresh_panes_only(a, srv, up) ==
    IF get_selected_window(a)
    THEN LET wid == Item(a.windows, a.window_list_state).id
         IN CHOOSE res \in
               {[app |-> [a EXCEPT !.panes = get_panes(r),
                                   !.pane_list_state =
                                       validate_list_selection(
                                           @, Len(get_panes(r)))],
                 from |-> Cursors(a),
                 cmds |-> <<Cmd("list-panes", wid, NoName, r.ok)>>] :
                r \in {run_tmux(ListPanes(srv, wid), up)}} : TRUE
    ELSE [app |-> a, from |-> NoCursors, cmds |-> <<>>]

cycle_focus(f) ==
    CASE f = "Sessions" -> "Windows"
      [] f = "Windows" -> "Panes"
      [] f = "Panes" -> "Sessions"

\* faulty variant: Sessions is the end of the way back
cycle_focus_back_no_wrap(f) ==
    CASE f = "Sessions" -> "Sessions"
      [] f = "Windows" -> "Sessions"
      [] f = "Panes" -> "Windows"

cycle_focus_back(f) ==
    CASE f = "Sessions" -> "Panes"
      [] f = "Windows" -> "Sessions"
      [] f = "Panes" -> "Windows"

\* a handler that runs no tmux command
Quiet(a) == [app |-> a, from |-> NoCursors, cmds |-> <<>>]

\* faulty variant: a step down the windows refreshes all three lists
nav_down_refresh_all(a, e, up) ==
    CASE a.focus = "Sessions" ->
            refresh_all([a EXCEPT !.session_list_state = next_item(@, Len(a.sessions))],
                        e, up)
      [] a.focus = "Windows" ->
            refresh_all([a EXCEPT !.window_list_state = next_item(@, Len(a.windows))],
                        e, up)
      [] a.focus = "Panes" ->
            Quiet([a EXCEPT !.pane_list_state = next_item(@, Len(a.panes))])

\* faulty variant: a step down the panes reads the panes again
nav_down_panes_refresh(a, e, up) ==
    CASE a.focus = "Sessions" ->
            refresh_all([a EXCEPT !.session_list_state = next_item(@, Len(a.sessions))],
                        e, up)
      [] a.focus = "Windows" ->
            refresh_panes_only(
                [a EXCEPT !.window_list_state = next_item(@, Len(a.windows))],
                e[1], up[1])
      [] a.focus = "Panes" ->
            refresh_panes_only(
                [a EXCEPT !.pane_list_state = next_item(@, Len(a.panes))],
                e[1], up[1])

nav_down(a, e, up) ==
    CASE a.focus = "Sessions" ->
            refresh_all([a EXCEPT !.session_list_state = next_item(@, Len(a.sessions))],
                        e, up)
      [] a.focus = "Windows" ->
            refresh_panes_only(
                [a EXCEPT !.window_list_state = next_item(@, Len(a.windows))],
                e[1], up[1])
      [] a.focus = "Panes" ->
            Quiet([a EXCEPT !.pane_list_state = next_item(@, Len(a.panes))])

\* faulty variant: a step up the windows leaves the panes as they are
nav_up_no_refresh(a, e, up) ==
    CASE a.focus = "Sessions" ->
            refresh_all([a EXCEPT !.session_list_state = prev_item(@, Len(a.sessions))],
                        e, up)
      [] a.focus = "Windows" ->
            Quiet([a EXCEPT !.window_list_state = prev_item(@, Len(a.windows))])
      [] a.focus = "Panes" ->
            Quiet([a EXCEPT !.pane_list_state = prev_item(@, Len(a.panes))])

nav_up(a, e, up) ==
    CASE a.focus = "Sessions" ->
            refresh_all([a EXCEPT !.session_list_state = prev_item(@, Len(a.sessions))],
                        e, up)
      [] a.focus = "Windows" ->
            refresh_panes_only(
                [a EXCEPT !.window_list_state = prev_item(@, Len(a.windows))],
                e[1], up[1])
      [] a.focus = "Panes" ->
            Quiet([a EXCEPT !.pane_list_state = prev_item(@, Len(a.panes))])

(* ------------------------------ main.rs -------------------------------- *)
\* a write: the command's effect when the binary launches, nothing otherwise;
\* the result is discarded by the caller and kept here for the log only
Write(c, target, arg, res, srv, up) ==
    LET done == IF up THEN res ELSE Refused(srv)
    IN [cmds |-> <<Cmd(c, target, arg, done.ok)>>, srv |-> done.srv]

NoWrite(srv) == [cmds |-> <<>>, srv |-> srv]

\* faulty variant: the text is written as it was typed
handle_input_submission_untrimmed(a, srv, up) ==
    LET val == a.input_buffer
        ses == Item(a.sessions, a.session_list_state)
        win == Item(a.windows, a.window_list_state)
    IN IF Trim(val) = <<>> THEN NoWrite(srv)
       ELSE CASE a.state = "InputNewSession" ->
                    Write("new-session", NoName, val, NewSession(srv, val), srv, up)
              [] a.state = "InputRenameSession" ->
                    IF get_selected_session(a)
                    THEN Write("rename-session", ses.name, val,
                               RenameSession(srv, ses.name, val), srv, up)
                    ELSE NoWrite(srv)
              [] a.state = "InputNewWindow" ->
                    IF get_selected_session(a)
                    THEN Write("new-window", ses.id, val,
                               NewWindow(srv, ses.id, val), srv, up)
                    ELSE NoWrite(srv)
              [] a.state = "InputRenameWindow" ->
                    IF get_selected_window(a)
                    THEN Write("rename-window", win.id, val,
                               RenameWindow(srv, win.id, val), srv, up)
                    ELSE NoWrite(srv)
              [] OTHER -> NoWrite(srv)

handle_input_submission(a, srv, up) ==
    LET val == Trim(a.input_buffer)
        ses == Item(a.sessions, a.session_list_state)
        win == Item(a.windows, a.window_list_state)
    IN IF val = <<>> THEN NoWrite(srv)
       ELSE CASE a.state = "InputNewSession" ->
                    Write("new-session", NoName, val, NewSession(srv, val), srv, up)
              [] a.state = "InputRenameSession" ->
                    IF get_selected_session(a)
                    THEN Write("rename-session", ses.name, val,
                               RenameSession(srv, ses.name, val), srv, up)
                    ELSE NoWrite(srv)
              [] a.state = "InputNewWindow" ->
                    IF get_selected_session(a)
                    THEN Write("new-window", ses.id, val,
                               NewWindow(srv, ses.id, val), srv, up)
                    ELSE NoWrite(srv)
              [] a.state = "InputRenameWindow" ->
                    IF get_selected_window(a)
                    THEN Write("rename-window", win.id, val,
                               RenameWindow(srv, win.id, val), srv, up)
                    ELSE NoWrite(srv)
              [] OTHER -> NoWrite(srv)

handle_confirmation(a, srv, up) ==
    LET ses == Item(a.sessions, a.session_list_state)
        win == Item(a.windows, a.window_list_state)
        pan == Item(a.panes, a.pane_list_state)
    IN CASE a.state = "ConfirmDeleteSession" ->
                IF get_selected_session(a)
                THEN Write("kill-session", ses.name, NoName,
                           KillSession(srv, ses.name), srv, up)
                ELSE NoWrite(srv)
         [] a.state = "ConfirmDeleteWindow" ->
                IF get_selected_window(a)
                THEN Write("kill-window", win.id, NoName,
                           KillWindow(srv, win.id), srv, up)
                ELSE NoWrite(srv)
         [] a.state = "ConfirmDeletePane" ->
                IF get_selected_pane(a)
                THEN Write("kill-pane", pan.id, NoName,
                           KillPane(srv, pan.id), srv, up)
                ELSE NoWrite(srv)
         [] OTHER -> NoWrite(srv)

\* what follows a write w in a handler: mode back to Normal, then refresh_all
then_refresh(a, w, e, up) ==
    LET r == refresh_all([a EXCEPT !.state = "Normal"], e, up)
    IN [app |-> r.app, from |-> r.from, cmds |-> w.cmds \o r.cmds]

\* faulty variant: no refresh behind a submission that wrote nothing
input_enter_no_refresh_on_skip(a, w, e, up) ==
    IF w.cmds = <<>> THEN Quiet([a EXCEPT !.state = "Normal"])
    ELSE then_refresh(a, w, e, up)

\* Enter in an input mode
input_enter(a, w, e, up) == then_refresh(a, w, e, up)

\* 'y' or Enter in a confirmation mode
confirm_yes(a, w, e, up) == then_refresh(a, w, e, up)

\* 'n' in Normal mode
key_new_prompt(a) ==
    CASE a.focus = "Sessions" ->
            [a EXCEPT !.state = "InputNewSession", !.input_buffer = <<>>]
      [] a.focus = "Windows" ->
            IF get_selected_session(a)
            THEN [a EXCEPT !.state = "InputNewWindow", !.input_buffer = <<>>]
            ELSE a
      [] OTHER -> a

\* 'n' in Normal mode with the focus on Panes: the write
create_pane(a, srv, up) ==
    IF get_selected_window(a)
    THEN LET wid == Item(a.windows, a.window_list_state).id
         IN Write("split-window", wid, NoName, SplitWindow(srv, wid), srv, up)
    ELSE NoWrite(srv)

\* ... and the refresh behind it
key_new_pane(a, w, e, up) ==
    IF get_selected_window(a)
    THEN LET r == refresh_all(a, e, up)
         IN [app |-> r.app, from |-> r.from, cmds |-> w.cmds \o r.cmds]
    ELSE Quiet(a)

\* 'R' in Normal mode
key_rename(a) ==
    CASE a.focus = "Sessions" ->
            IF get_selected_session(a)
            THEN [a EXCEPT !.state = "InputRenameSession",
                           !.input_buffer = Item(a.sessions, a.session_list_state).name]
            ELSE a
      [] a.focus = "Windows" ->
            IF get_selected_window(a)
            THEN [a EXCEPT !.state = "InputRenameWindow",
                           !.input_buffer = Item(a.windows, a.window_list_state).name]
            ELSE a
      [] OTHER -> a

\* faulty variant: the pane confirmation opens with no pane selected
key_delete_unchecked(a) ==
    CASE a.focus = "Sessions" ->
            IF get_selected_session(a)
            THEN [a EXCEPT !.state = "ConfirmDeleteSession"] ELSE a
      [] a.focus = "Windows" ->
            IF get_selected_window(a)
            THEN [a EXCEPT !.state = "ConfirmDeleteWindow"] ELSE a
      [] a.focus = "Panes" -> [a EXCEPT !.state = "ConfirmDeletePane"]

\* 'd' in Normal mode
key_delete(a) ==
    CASE a.focus = "Sessions" ->
            IF get_selected_session(a)
            THEN [a EXCEPT !.state = "ConfirmDeleteSession"] ELSE a
      [] a.focus = "Windows" ->
            IF get_selected_window(a)
            THEN [a EXCEPT !.state = "ConfirmDeleteWindow"] ELSE a
      [] a.focus = "Panes" ->
            IF get_selected_pane(a)
            THEN [a EXCEPT !.state = "ConfirmDeletePane"] ELSE a

NoTarget == [some |-> FALSE, val |-> NoName]
Target(name) == [some |-> TRUE, val |-> name]

\* Enter in Normal mode (attach)
\* faulty variant: the target is recorded and the quit flag forgotten
key_enter_no_quit(a, srv, up) ==
    LET ses == Item(a.sessions, a.session_list_state)
        win == Item(a.windows, a.window_list_state)
        pan == Item(a.panes, a.pane_list_state)
        go == [a EXCEPT !.target_attach = Target(ses.name)]
        sw == Write("select-window", win.id, NoName,
                    SelectWindow(srv, win.id), srv, up[1])
        sp == Write("select-pane", pan.id, NoName,
                    SelectPane(srv, pan.id), srv, up[2])
    IN CASE a.focus = "Sessions" ->
                IF get_selected_session(a) THEN Quiet(go) ELSE Quiet(a)
         [] a.focus = "Windows" ->
                IF get_selected_session(a) /\ get_selected_window(a)
                THEN [app |-> go, from |-> NoCursors, cmds |-> sw.cmds]
                ELSE Quiet(a)
         [] a.focus = "Panes" ->
                IF get_selected_session(a) /\ get_selected_window(a)
                   /\ get_selected_pane(a)
                THEN [app |-> go, from |-> NoCursors, cmds |-> sw.cmds \o sp.cmds]
                ELSE Quiet(a)

\* faulty variant: the window's name is recorded as the target
key_enter_window_name(a, srv, up) ==
    LET ses == Item(a.sessions, a.session_list_state)
        win == Item(a.windows, a.window_list_state)
        pan == Item(a.panes, a.pane_list_state)
        go == [a EXCEPT !.target_attach = Target(ses.name), !.should_quit = TRUE]
        gw == [a EXCEPT !.target_attach = Target(win.name), !.should_quit = TRUE]
        sw == Write("select-window", win.id, NoName,
                    SelectWindow(srv, win.id), srv, up[1])
        sp == Write("select-pane", pan.id, NoName,
                    SelectPane(srv, pan.id), srv, up[2])
    IN CASE a.focus = "Sessions" ->
                IF get_selected_session(a) THEN Quiet(go) ELSE Quiet(a)
         [] a.focus = "Windows" ->
                IF get_selected_session(a) /\ get_selected_window(a)
                THEN [app |-> gw, from |-> NoCursors, cmds |-> sw.cmds]
                ELSE Quiet(a)
         [] a.focus = "Panes" ->
                IF get_selected_session(a) /\ get_selected_window(a)
                   /\ get_selected_pane(a)
                THEN [app |-> go, from |-> NoCursors, cmds |-> sw.cmds \o sp.cmds]
                ELSE Quiet(a)

\* faulty variant: the pane is selected before its window
key_enter_pane_first(a, srv, up) ==
    LET ses == Item(a.sessions, a.session_list_state)
        win == Item(a.windows, a.window_list_state)
        pan == Item(a.panes, a.pane_list_state)
        go == [a EXCEPT !.target_attach = Target(ses.name), !.should_quit = TRUE]
        sw == Write("select-window", win.id, NoName,
                    SelectWindow(srv, win.id), srv, up[1])
        sp == Write("select-pane", pan.id, NoName,
                    SelectPane(srv, pan.id), srv, up[2])
    IN CASE a.focus = "Sessions" ->
                IF get_selected_session(a) THEN Quiet(go) ELSE Quiet(a)
         [] a.focus = "Windows" ->
                IF get_selected_session(a) /\ get_selected_window(a)
                THEN [app |-> go, from |-> NoCursors, cmds |-> sw.cmds]
                ELSE Quiet(a)
         [] a.focus = "Panes" ->
                IF get_selected_session(a) /\ get_selected_window(a)
                   /\ get_selected_pane(a)
                THEN [app |-> go, from |-> NoCursors, cmds |-> sp.cmds \o sw.cmds]
                ELSE Quiet(a)

key_enter(a, srv, up) ==
    LET ses == Item(a.sessions, a.session_list_state)
        win == Item(a.windows, a.window_list_state)
        pan == Item(a.panes, a.pane_list_state)
        go == [a EXCEPT !.target_attach = Target(ses.name), !.should_quit = TRUE]
        sw == Write("select-window", win.id, NoName,
                    SelectWindow(srv, win.id), srv, up[1])
        sp == Write("select-pane", pan.id, NoName,
                    SelectPane(srv, pan.id), srv, up[2])
    IN CASE a.focus = "Sessions" ->
                IF get_selected_session(a) THEN Quiet(go) ELSE Quiet(a)
         [] a.focus = "Windows" ->
                IF get_selected_session(a) /\ get_selected_window(a)
                THEN [app |-> go, from |-> NoCursors, cmds |-> sw.cmds]
                ELSE Quiet(a)
         [] a.focus = "Panes" ->
                IF get_selected_session(a) /\ get_selected_window(a)
                   /\ get_selected_pane(a)
                THEN [app |-> go, from |-> NoCursors, cmds |-> sw.cmds \o sp.cmds]
                ELSE Quiet(a)

\* main, behind the loop: with a target recorded the client is switched to
\* it (inside tmux) or the process becomes `tmux attach` on it (outside)
hand_off(a, in_tmux, srv) ==
    IF a.target_attach.some
    THEN [app |-> a, from |-> NoCursors,
          cmds |-> <<Cmd(IF in_tmux THEN "switch-client" ELSE "attach",
                         a.target_attach.val, NoName,
                         HasSessionName(srv, a.target_attach.val))>>]
    ELSE Quiet(a)

(* ---------------------------- the machine ------------------------------ *)
\* One handler's tmux invocations meet at most one disturbance: one of its
\* reads fails to launch the binary (up), or another client closes a window
\* between two reads of a refresh_all (e: the server as reads 1, 2, 3 see it).
Still(srv) == <<srv, srv, srv>>
AllUp == [i \in 1..3 |-> TRUE]
Calm(srv) == [e |-> Still(srv), up |-> AllUp]

Race(srv) == {KillWindow(srv, IdText(w.id)).srv : w \in AllWindows(srv)}

Runs(srv) ==
    {Calm(srv)}
    \cup {[e |-> Still(srv), up |-> [i \in 1..3 |-> i # k]] : k \in 1..3}
    \cup {[e |-> <<srv, x, x>>, up |-> AllUp] : x \in Race(srv)}
    \cup {[e |-> <<srv, srv, x>>, up |-> AllUp] : x \in Race(srv)}

\* the runs behind a write: the write's own failure to launch is the disturbance
RunsAfter(w, up) == IF up THEN Runs(w.srv) ELSE {Calm(w.srv)}

\* what the server holds for the lists of a: its sessions, the windows of the
\* session under the cursor and the panes of the window under the cursor
Nothing == [sessions |-> <<>>, windows |-> <<>>, panes |-> <<>>]

Listing(srv, a) ==
    LET sid == Item(a.sessions, a.session_list_state).id
        wid == Item(a.windows, a.window_list_state).id
    IN [sessions |->
            [i \in 1..Len(srv) |-> [id |-> IdText(srv[i].id), name |-> srv[i].name]],
        windows |->
            IF get_selected_session(a) /\ HasSessionId(srv, sid)
            THEN LET s == CHOOSE s \in Range(srv) : IdText(s.id) = sid
                 IN [j \in 1..Len(s.windows) |->
                        [id |-> IdText(s.windows[j].id), name |-> s.windows[j].name]]
            ELSE <<>>,
        panes |->
            IF get_selected_window(a) /\ HasWindow(srv, wid)
            THEN LET w == CHOOSE w \in AllWindows(srv) : IdText(w.id) = wid
                 IN [j \in 1..Len(w.panes) |-> [id |-> IdText(w.panes[j])]]
            ELSE <<>>]

\* the state after a handler: res is [app, from, cmds]
Handled(ev, res, rc, lst) ==
    \E r \in {res} :
       /\ sessions' = r.app.sessions
       /\ windows' = r.app.windows
       /\ panes' = r.app.panes
       /\ session_list_state' = r.app.session_list_state
       /\ window_list_state' = r.app.window_list_state
       /\ pane_list_state' = r.app.pane_list_state
       /\ focus' = r.app.focus
       /\ state' = r.app.state
       /\ input_buffer' = r.app.input_buffer
       /\ should_quit' = r.app.should_quit
       /\ target_attach' = r.app.target_attach
       /\ event' = ev
       /\ cmds' = r.cmds
       /\ found' = r.from
       /\ raced' = rc
       /\ listed' = lst

\* ... that ran a refresh_all under run
Refreshed(ev, r, run) ==
    Handled(ev, r, run.e[3] # run.e[1],
            IF run.e[3] = run.e[1] THEN Listing(run.e[1], r.app) ELSE Nothing)

\* ... that ran no refresh_all
Local(ev, r) == Handled(ev, r, FALSE, Nothing)

\* App::new()
Init ==
    \E srv \in Servers :
      \E run \in Runs(srv) :
        LET r == refresh_all(
                     [sessions |-> <<>>, windows |-> <<>>, panes |-> <<>>,
                      session_list_state |-> None, window_list_state |-> None,
                      pane_list_state |-> None, focus |-> "Sessions",
                      state |-> "Normal", input_buffer |-> <<>>,
                      should_quit |-> FALSE, target_attach |-> NoTarget],
                     run.e, run.up)
        IN /\ sessions = r.app.sessions
           /\ windows = r.app.windows
           /\ panes = r.app.panes
           /\ session_list_state = r.app.session_list_state
           /\ window_list_state = r.app.window_list_state
           /\ pane_list_state = r.app.pane_list_state
           /\ focus = r.app.focus
           /\ state = r.app.state
           /\ input_buffer = r.app.input_buffer
           /\ should_quit = r.app.should_quit
           /\ target_attach = r.app.target_attach
           /\ event = "new"
           /\ cmds = r.cmds
           /\ found = r.from
           /\ raced = (run.e[3] # run.e[1])
           /\ listed = IF run.e[3] = run.e[1] THEN Listing(srv, r.app) ELSE Nothing

\* no key event read yet in this loop iteration
NoEvent == "none"

\* run_loop, top of an iteration: the loop goes on unless should_quit is set,
\* draws the frame and polls for the next key event
Draw ==
    /\ event # NoEvent
    /\ ~should_quit
    /\ event' = NoEvent
    /\ cmds' = <<>>
    /\ found' = NoCursors
    /\ raced' = FALSE
    /\ listed' = Nothing
    /\ UNCHANGED <<sessions, windows, panes, session_list_state, window_list_state,
                   pane_list_state, focus, state, input_buffer, should_quit,
                   target_attach>>

\* a key event arrives: the arm of the dispatcher that takes it
Normal == event = NoEvent /\ state = "Normal"
Input == event = NoEvent /\ state \in InputModes
Confirm == event = NoEvent /\ state \in ConfirmModes

\* faulty variant: the lists are read again whenever the poll times out
PollTimeoutRefresh ==
    /\ event = NoEvent
    /\ \E srv \in Servers :
          \E run \in Runs(srv) :
             Refreshed("timeout", refresh_all(App, run.e, run.up), run)

\* event::poll returns false after 100 ms: the iteration ends with no handler
PollTimeout ==
    /\ event = NoEvent
    /\ Local("timeout", Quiet(App))

KeyQuit ==
    /\ Normal
    /\ Local("q", Quiet([App EXCEPT !.should_quit = TRUE]))

KeyRefresh ==
    /\ Normal
    /\ \E srv \in Servers :
          \E run \in Runs(srv) :
             Refreshed("r", refresh_all(App, run.e, run.up), run)

KeyDown ==
    /\ Normal
    /\ CASE focus = "Sessions" ->
               \E srv \in Servers :
                  \E run \in Runs(srv) :
                     Refreshed("j", nav_down(App, run.e, run.up), run)
         [] focus = "Windows" ->
               \E srv \in Servers, up \in BOOLEAN :
                  Local("j", nav_down(App, Still(srv), [i \in 1..3 |-> up]))
         [] focus = "Panes" ->
               Local("j", nav_down(App, Still(<<>>), AllUp))

KeyUp ==
    /\ Normal
    /\ CASE focus = "Sessions" ->
               \E srv \in Servers :
                  \E run \in Runs(srv) :
                     Refreshed("k", nav_up(App, run.e, run.up), run)
         [] focus = "Windows" ->
               \E srv \in Servers, up \in BOOLEAN :
                  Local("k", nav_up(App, Still(srv), [i \in 1..3 |-> up]))
         [] focus = "Panes" ->
               Local("k", nav_up(App, Still(<<>>), AllUp))

KeyTab ==
    /\ Normal
    /\ Local("Tab", Quiet([App EXCEPT !.focus = cycle_focus(@)]))

KeyBackTab ==
    /\ Normal
    /\ Local("BackTab", Quiet([App EXCEPT !.focus = cycle_focus_back(@)]))

KeyNew ==
    /\ Normal
    /\ IF focus = "Panes"
       THEN IF get_selected_window(App)
            THEN \E srv \in Servers, up \in BOOLEAN :
                    LET w == create_pane(App, srv, up)
                    IN \E run \in RunsAfter(w, up) :
                          Refreshed("n", key_new_pane(App, w, run.e, run.up), run)
            ELSE Local("n", key_new_pane(App, NoWrite(<<>>), Still(<<>>), AllUp))
       ELSE Local("n", Quiet(key_new_prompt(App)))

KeyRename ==
    /\ Normal
    /\ Local("R", Quiet(key_rename(App)))

KeyDelete ==
    /\ Normal
    /\ Local("d", Quiet(key_delete(App)))

KeyEnter ==
    /\ Normal
    /\ \E srv \in Servers, up \in [1..2 -> BOOLEAN] :
          Local("Enter", key_enter(App, srv, up))

InputEnter ==
    /\ Input
    /\ \E srv \in Servers, up \in BOOLEAN :
          LET w == handle_input_submission(App, srv, up)
          IN \E run \in RunsAfter(w, up) :
                Refreshed("submit", input_enter(App, w, run.e, run.up), run)

InputEsc ==
    /\ Input
    /\ Local("Esc", Quiet([App EXCEPT !.state = "Normal"]))

\* faulty variant: a typed character also steps the pane cursor down
InputCharMovesCursor ==
    /\ Input
    /\ Len(input_buffer) < MaxBuf
    /\ \E c \in Chars :
          Local("Char",
                Quiet([App EXCEPT !.input_buffer = Append(@, c),
                                  !.pane_list_state = next_item(@, Len(panes))]))

InputChar ==
    /\ Input
    /\ Len(input_buffer) < MaxBuf
    /\ \E c \in Chars :
          Local("Char", Quiet([App EXCEPT !.input_buffer = Append(@, c)]))

InputBackspace ==
    /\ Input
    /\ Local("Backspace",
             Quiet([App EXCEPT !.input_buffer =
                        IF @ = <<>> THEN @ ELSE SubSeq(@, 1, Len(@) - 1)]))

ConfirmYes ==
    /\ Confirm
    /\ \E srv \in Servers, up \in BOOLEAN :
          LET w == handle_confirmation(App, srv, up)
          IN \E run \in RunsAfter(w, up) :
                Refreshed("y", confirm_yes(App, w, run.e, run.up), run)

\* faulty variant: the lists are read again behind a cancelled confirmation
ConfirmNoRefresh ==
    /\ Confirm
    /\ \E srv \in Servers :
          \E run \in Runs(srv) :
             Refreshed("cancel",
                       refresh_all([App EXCEPT !.state = "Normal"], run.e, run.up),
                       run)

ConfirmNo ==
    /\ Confirm
    /\ Local("cancel", Quiet([App EXCEPT !.state = "Normal"]))

\* the loop has returned: the terminal is restored and the target handed off
HandOff ==
    /\ should_quit
    /\ event # "exit"
    /\ \E srv \in Servers, in_tmux \in BOOLEAN :
          Local("exit", hand_off(App, in_tmux, srv))

Next ==
    \/ Draw \/ PollTimeout
    \/ KeyQuit \/ KeyRefresh \/ KeyDown \/ KeyUp \/ KeyTab \/ KeyBackTab
    \/ KeyNew \/ KeyRename \/ KeyDelete \/ KeyEnter
    \/ InputEnter \/ InputEsc \/ InputChar \/ InputBackspace
    \/ ConfirmYes \/ ConfirmNo
    \/ HandOff

Spec == Init /\ [][Next]_vars

(* ------------------- next_item / prev_item by themselves --------------- *)
\* The cursor helpers see a cursor and a length only.  Here they are applied
\* over and over to the pane cursor of a pane list that no one changes, from
\* every length up to NavLen and every cursor a ListState can hold (unset
\* included); event names what was applied last and found.p the cursor it
\* was applied to.
PaneList(n) == [i \in 1..n |-> [id |-> IdText(i)]]

NavInit ==
    /\ sessions = <<>> /\ windows = <<>>
    /\ session_list_state = None /\ window_list_state = None
    /\ \E n \in 0..NavLen :
          /\ panes = PaneList(n)
          /\ pane_list_state \in {None} \cup 0..(n - 1)
    /\ focus = "Panes" /\ state = "Normal" /\ input_buffer = <<>>
    /\ should_quit = FALSE /\ target_attach = NoTarget
    /\ event = "new" /\ cmds = <<>> /\ found = NoCursors
    /\ raced = FALSE /\ listed = Nothing

Moved(ev, sel) ==
    /\ pane_list_state' = sel
    /\ event' = ev
    /\ found' = [found EXCEPT !.p = pane_list_state]
    /\ UNCHANGED <<sessions, windows, panes, session_list_state,
                   window_list_state, focus, state, input_buffer, should_quit,
                   target_attach, cmds, raced, listed>>

ApplyNext == Moved("next", next_item(pane_list_state, Len(panes)))
ApplyPrev == Moved("prev", prev_item(pane_list_state, Len(panes)))

\* one helper and then the other, nothing in between
NextThenPrev ==
    Moved("next,prev",
          prev_item(next_item(pane_list_state, Len(panes)), Len(panes)))
PrevThenNext ==
    Moved("prev,next",
          next_item(prev_item(pane_list_state, Len(panes)), Len(panes)))

NavNext == ApplyNext \/ ApplyPrev \/ NextThenPrev \/ PrevThenNext

NavSpec == NavInit /\ [][NavNext]_vars

(* ------------------- the readers of tmux.rs by themselves -------------- *)
\* get_sessions, get_windows and get_panes applied to whatever a tmux could
\* print: every text of up to OutLen characters of OutChars, the command
\* launching or not and exiting with status 0 or not.  listed holds the
\* command's result as the process left it, event names the reader applied,
\* and the list it returned (whole records) is stored at its level.
OutChars == {"1", Delim, Newline, " "}

RECURSIVE Texts(_)
Texts(n) ==
    IF n = 0 THEN {<<>>}
    ELSE LET S == Texts(n - 1)
         IN S \cup {Append(s, c) : s \in {x \in S : Len(x) = n - 1}, c \in OutChars}

ReadInit ==
    /\ sessions = <<>> /\ windows = <<>> /\ panes = <<>>
    /\ session_list_state = None /\ window_list_state = None
    /\ pane_list_state = None
    /\ focus = "Sessions" /\ state = "Normal" /\ input_buffer = <<>>
    /\ should_quit = FALSE /\ target_attach = NoTarget
    /\ event = "new" /\ cmds = <<>> /\ found = NoCursors /\ raced = FALSE
    /\ \E out \in Texts(OutLen), ok \in BOOLEAN, up \in BOOLEAN :
          listed = [ok |-> ok, out |-> out, up |-> up]

Launched == run_tmux([ok |-> listed.ok, out |-> listed.out], listed.up)

ReadSessions ==
    /\ event = "new"
    /\ sessions' = parse_sessions(Launched)
    /\ event' = "list-sessions"
    /\ UNCHANGED <<windows, panes, session_list_state, window_list_state,
                   pane_list_state, focus, state, input_buffer, should_quit,
                   target_attach, cmds, found, raced, listed>>

ReadWindows ==
    /\ event = "new"
    /\ windows' = parse_windows(Launched)
    /\ event' = "list-windows"
    /\ UNCHANGED <<sessions, panes, session_list_state, window_list_state,
                   pane_list_state, focus, state, input_buffer, should_quit,
                   target_attach, cmds, found, raced, listed>>

ReadPanes ==
    /\ event = "new"
    /\ panes' = parse_panes(Launched)
    /\ event' = "list-panes"
    /\ UNCHANGED <<sessions, windows, session_list_state, window_list_state,
                   pane_list_state, focus, state, input_buffer, should_quit,
                   target_attach, cmds, found, raced, listed>>

ReadNext == ReadSessions \/ ReadWindows \/ ReadPanes

ReadSpec == ReadInit /\ [][ReadNext]_vars

(* --------------- cycle_focus / cycle_focus_back by themselves ---------- *)
\* The two methods are applied, alone and in the sequences that should undo
\* themselves, to an App in Normal mode holding any lists and cursors the
\* program keeps (a cursor is unset exactly on an empty list, and a list below
\* an empty one is empty); event names what was applied last.
NamedList(n) == [i \in 1..n |-> [id |-> IdText(i), name |-> DefaultName]]

FocusInit ==
    /\ \E ns \in 0..MaxSessions, nw \in 0..MaxWindows, np \in 0..MaxPanes :
          /\ ns = 0 => nw = 0
          /\ nw = 0 => np = 0
          /\ sessions = NamedList(ns)
          /\ windows = NamedList(nw)
          /\ panes = PaneList(np)
          /\ session_list_state \in (IF ns = 0 THEN {None} ELSE 0..(ns - 1))
          /\ window_list_state \in (IF nw = 0 THEN {None} ELSE 0..(nw - 1))
          /\ pane_list_state \in (IF np = 0 THEN {None} ELSE 0..(np - 1))
    /\ focus \in Focuses
    /\ state = "Normal" /\ input_buffer = <<>>
    /\ should_quit = FALSE /\ target_attach = NoTarget
    /\ event = "new" /\ cmds = <<>> /\ found = NoCursors
    /\ raced = FALSE /\ listed = Nothing

Forward(a) == [a EXCEPT !.focus = cycle_focus(@)]
Backward(a) == [a EXCEPT !.focus = cycle_focus_back(@)]

ApplyCycle == Local("cycle_focus", Quiet(Forward(App)))

ApplyCycleBack == Local("cycle_focus_back", Quiet(Backward(App)))

CycleThenBack == Local("cycle_focus,cycle_focus_back", Quiet(Backward(Forward(App))))

BackThenCycle == Local("cycle_focus_back,cycle_focus", Quiet(Forward(Backward(App))))

CycleThrice == Local("cycle_focus x3", Quiet(Forward(Forward(Forward(App)))))

BackThrice == Local("cycle_focus_back x3", Quiet(Backward(Backward(Backward(App)))))

FocusNext ==
    ApplyCycle \/ ApplyCycleBack \/ CycleThenBack \/ BackThenCycle
       \/ CycleThrice \/ BackThrice

FocusSpec == FocusInit /\ [][FocusNext]_vars

(* ------------------- the submission of a prompt by itself -------------- *)
\* Enter is pressed in an Input mode holding any text of up to SubmitLen
\* typed characters. The prompt was opened by 'n' or 'R' over the lists of
\* a refresh_all (the server srv0 then, the cursors wherever the refresh
\* left them) with the focus on Sessions or Windows.
Typed(n) == UNION {[1..k -> Chars] : k \in 0..n}

SubmitInit ==
    /\ \E srv0 \in Servers, i \in {None, 0, 1}, j \in {None, 0, 1},
          f \in {"Sessions", "Windows"}, text \in Typed(SubmitLen) :
          \E a0 \in {refresh_all(
                        [sessions |-> <<>>, windows |-> <<>>, panes |-> <<>>,
                         session_list_state |-> i, window_list_state |-> j,
                         pane_list_state |-> None, focus |-> f,
                         state |-> "Normal", input_buffer |-> <<>>,
                         should_quit |-> FALSE, target_attach |-> NoTarget],
                        Still(srv0), AllUp).app} :
             \E a1 \in {key_new_prompt(a0), key_rename(a0)} :
                /\ a1.state \in InputModes
                /\ sessions = a1.sessions
                /\ windows = a1.windows
                /\ panes = a1.panes
                /\ session_list_state = a1.session_list_state
                /\ window_list_state = a1.window_list_state
                /\ pane_list_state = a1.pane_list_state
                /\ focus = a1.focus
                /\ state = a1.state
                /\ input_buffer = text
    /\ should_quit = FALSE /\ target_attach = NoTarget
    /\ event = NoEvent /\ cmds = <<>> /\ found = NoCursors
    /\ raced = FALSE /\ listed = Nothing

SubmitNext == InputEnter

SubmitSpec == SubmitInit /\ [][SubmitNext]_vars

(* ------------------------------ claims --------------------------------- *)
\* the log holds an invocation of command c / one that returned None
Issued(log, c) == \E i \in 1..Len(log) : log[i].cmd = c
Failed(log, c) == \E i \in 1..Len(log) : log[i].cmd = c /\ ~log[i].ok

\* the handler of this iteration ran refresh_all (it alone lists the sessions)
RanRefreshAll == Issued(cmds, "list-sessions")

\* the cursor invariant of one level
CursorOk(sel, list) ==
    IF list = <<>> THEN sel = None ELSE sel \in 0..(Len(list) - 1)

\* C1: in every reachable state, at each of the three levels the cursor is
\* None iff the list is empty, and otherwise 0 <= cursor < length of the list.
C1_CursorInvariant ==
    /\ CursorOk(session_list_state, sessions)
    /\ CursorOk(window_list_state, windows)
    /\ CursorOk(pane_list_state, panes)

\* C1 happens: after navigating to the second session, a refresh whose
\* list-windows read failed left two sessions under cursor 1 and no window.
C1_Witness ==
    /\ event = "r" /\ Failed(cmds, "list-windows")
    /\ Len(sessions) = 2 /\ session_list_state = 1
    /\ windows = <<>> /\ window_list_state = None
    /\ panes = <<>> /\ pane_list_state = None

\* C2: a read that fails during a refresh leaves the list of its level empty
\* with cursor None, and every level below it too ...
C2_FailedReadEmpties ==
    /\ Failed(cmds, "list-sessions") =>
          sessions = <<>> /\ session_list_state = None
    /\ Failed(cmds, "list-sessions") \/ Failed(cmds, "list-windows") =>
          windows = <<>> /\ window_list_state = None
    /\ Failed(cmds, "list-sessions") \/ Failed(cmds, "list-windows")
          \/ Failed(cmds, "list-panes") =>
          panes = <<>> /\ pane_list_state = None

\* ... and the handler still completes, its refresh changing neither the
\* focus nor the quit flag nor the mode (Enter and 'y' set the mode to Normal
\* themselves, before they refresh).
C2_FailedReadFrame ==
    (Failed(cmds', "list-sessions") \/ Failed(cmds', "list-windows")
        \/ Failed(cmds', "list-panes")) =>
       /\ focus' = focus
       /\ should_quit' = should_quit
       /\ state' = IF event' \in {"submit", "y"} THEN "Normal" ELSE state

\* C2: if a read of the external process fails during a refresh, the list of
\* that level becomes empty and its cursor None, every level below it ends
\* empty with cursor None, and the refresh completes without changing the
\* mode, the focus or the quit flag.
C2_FailedRead == [](C2_FailedReadEmpties) /\ [][C2_FailedReadFrame]_vars

\* C2 happens: a step down the session list whose list-windows read failed,
\* with the focus still on Sessions and the loop still running.
C2_Witness ==
    /\ event = "j" /\ Failed(cmds, "list-windows")
    /\ sessions # <<>> /\ windows = <<>> /\ panes = <<>>
    /\ focus = "Sessions" /\ state = "Normal" /\ ~should_quit

\* C3: whenever a refresh_all finds the session list empty, the windows and
\* the panes are empty and both their cursors None afterwards.
C3_NoSessionNoChildren ==
    RanRefreshAll /\ sessions = <<>> =>
       /\ windows = <<>> /\ window_list_state = None
       /\ panes = <<>> /\ pane_list_state = None

\* C3 happens: a confirmed delete killed the selected session (so there were
\* sessions, windows and panes before) and the refresh found no session left.
C3_Witness ==
    /\ event = "y" /\ RanRefreshAll
    /\ cmds[1].cmd = "kill-session" /\ cmds[1].ok
    /\ sessions = <<>>

\* the index one step down / up from index c in a list of n >= 1 items
StepDown(c, n) == (c + 1) % n
StepUp(c, n) == (c + n - 1) % n

\* the ids of a list, in order
Ids(list) == [i \in 1..Len(list) |-> list[i].id]

\* the reads of the handler's refresh_all all succeeded and no other client
\* acted between them
Undisturbed ==
    /\ RanRefreshAll /\ ~raced
    /\ \A i \in 1..Len(cmds) :
          cmds[i].cmd \in {"list-sessions", "list-windows", "list-panes"} => cmds[i].ok

\* a navigation key with the focus on Sessions: the cursor handed to the
\* refresh is one step further, with wrap-around; the windows are read for
\* the session under the repaired cursor and the panes for the window under
\* the repaired window cursor, and undisturbed they are that session's
\* windows and that window's panes
C4_Step ==
    event' \in {"j", "k"} /\ focus = "Sessions" =>
       LET n == Len(sessions)
           moved == IF n = 0 THEN session_list_state
                    ELSE IF event' = "j" THEN StepDown(session_list_state, n)
                    ELSE StepUp(session_list_state, n)
       IN /\ found'.s = moved
          /\ (n > 0 /\ Len(sessions') = n => session_list_state' = moved)
          /\ RanRefreshAll'
          /\ (sessions' # <<>> =>
                 /\ Len(cmds') >= 2 /\ cmds'[2].cmd = "list-windows"
                 /\ cmds'[2].target = sessions'[session_list_state' + 1].id)
          /\ (windows' # <<>> =>
                 /\ Len(cmds') = 3 /\ cmds'[3].cmd = "list-panes"
                 /\ cmds'[3].target = windows'[window_list_state' + 1].id)
          /\ (Undisturbed' =>
                 /\ Ids(windows') = Ids(listed'.windows)
                 /\ Ids(panes') = Ids(listed'.panes))

\* C4: a navigation step with focus on Sessions moves the session cursor by
\* one with wrap-around and then re-fetches the windows of the session now
\* under the cursor and the panes of the window now under the window cursor.
C4_SessionNav == [][C4_Step]_vars

\* C4 happens: with two sessions, a step up from the first wrapped to the
\* second, whose windows and panes were then read.
C4_Witness ==
    /\ event = "k" /\ focus = "Sessions" /\ Undisturbed
    /\ Len(sessions) = 2 /\ found.s = 1 /\ session_list_state = 1
    /\ cmds[2].target = sessions[2].id
    /\ windows # <<>> /\ panes # <<>>

\* a navigation key with the focus on Windows
C5_Step ==
    event' \in {"j", "k"} /\ focus = "Windows" =>
       /\ sessions' = sessions
       /\ session_list_state' = session_list_state
       /\ windows' = windows
       /\ ~Issued(cmds', "list-sessions") /\ ~Issued(cmds', "list-windows")
       /\ (windows = <<>> => cmds' = <<>>)
       /\ (windows # <<>> =>
              /\ window_list_state' =
                    IF event' = "j" THEN StepDown(window_list_state, Len(windows))
                    ELSE StepUp(window_list_state, Len(windows))
              /\ Len(cmds') = 1 /\ cmds'[1].cmd = "list-panes"
              /\ cmds'[1].target = windows[window_list_state' + 1].id)

\* C5: a navigation step with focus on Windows re-fetches only the panes (of
\* the window now under the window cursor): the sessions, the session cursor
\* and the windows stay as they are and no list-sessions or list-windows
\* read is issued.
C5_WindowNav == [][C5_Step]_vars

\* C5 happens: with two windows, a step up moved the window cursor to the
\* second window and one list-panes read fetched its panes.
C5_Witness ==
    /\ event = "k" /\ focus = "Windows"
    /\ Len(windows) = 2 /\ window_list_state = 1
    /\ Len(cmds) = 1 /\ cmds[1].cmd = "list-panes" /\ cmds[1].ok
    /\ cmds[1].target = windows[2].id
    /\ panes # <<>>

\* the commands that change the server
Writes == {"new-session", "rename-session", "kill-session", "new-window",
           "rename-window", "kill-window", "split-window", "kill-pane"}

\* the log is a refresh_all, behind one write at most
RefreshBehindWrite(log) ==
    \E k \in 1..2 :
       /\ k <= Len(log) /\ log[k].cmd = "list-sessions"
       /\ \A j \in 1..(k - 1) : log[j].cmd \in Writes

\* C6 as stated: after every submit, every confirmed delete and every create
\* pane, a refresh_all has run before the next key event is taken, whether
\* the write succeeded, failed or was skipped.
C6_Original ==
    event \in {"submit", "y"} \/ (event = "n" /\ focus = "Panes") => RanRefreshAll

\* 'n' with the focus on Panes
C6_CreatePaneStep ==
    event' = "n" /\ focus = "Panes" =>
       IF Selected(windows, window_list_state)
       THEN /\ cmds'[1].cmd = "split-window"
            /\ cmds'[1].target = windows[window_list_state + 1].id
            /\ RefreshBehindWrite(cmds')
       ELSE /\ cmds' = <<>>
            /\ UNCHANGED <<sessions, windows, panes, session_list_state,
                           window_list_state, pane_list_state, focus, state>>

\* C6, amended: after every submit and every confirmed delete a refresh_all
\* runs before the next key event is taken, whether the write succeeded,
\* failed or was skipped; create pane runs its write and then refresh_all
\* when a window is selected (whether the write succeeded or failed), and
\* with no window selected it runs neither the write nor a refresh.
C6_RefreshAfterWrite ==
    /\ [](event \in {"submit", "y"} => RefreshBehindWrite(cmds))
    /\ [][C6_CreatePaneStep]_vars

\* C6 happens: 'n' with the focus on Panes and no window to split: nothing was
\* written and nothing was read.
C6_Witness ==
    /\ event = "n" /\ focus = "Panes"
    /\ windows = <<>> /\ window_list_state = None
    /\ cmds = <<>>

\* no name of the listing holds the delimiter (the read format's premise)
Plain(name) == \A i \in 1..Len(name) : name[i] # Delim

PlainListing ==
    /\ \A i \in 1..Len(listed.sessions) : Plain(listed.sessions[i].name)
    /\ \A i \in 1..Len(listed.windows) : Plain(listed.windows[i].name)

\* C7: after a refresh_all in which no read failed and the server did not
\* change (its names free of the delimiter), the sessions are the server's
\* sessions in its order, the windows those of the session under the session
\* cursor and the panes those of the window under the window cursor: each
\* list is what was read, with nothing left of the list before.
C7_ListsMatchServer ==
    Undisturbed /\ PlainListing =>
       /\ sessions = listed.sessions
       /\ windows = listed.windows
       /\ panes = listed.panes

\* C7 happens: an undisturbed refresh that read two sessions, two windows
\* and the panes of the selected window.
C7_Witness ==
    /\ event = "r" /\ Undisturbed /\ PlainListing
    /\ Len(sessions) = 2 /\ Len(windows) = 2 /\ panes # <<>>
    /\ sessions = listed.sessions

\* every write of the step names the item selected at its level, and a
\* prompt opens only over a selection
C8_Step ==
    /\ \A i \in 1..Len(cmds') :
          LET c == cmds'[i]
          IN /\ c.cmd \in {"rename-session", "kill-session"} =>
                   /\ Selected(sessions, session_list_state)
                   /\ c.target = sessions[session_list_state + 1].name
             /\ c.cmd = "new-window" =>
                   /\ Selected(sessions, session_list_state)
                   /\ c.target = sessions[session_list_state + 1].id
             /\ c.cmd \in {"rename-window", "kill-window", "split-window",
                            "select-window"} =>
                   /\ Selected(windows, window_list_state)
                   /\ c.target = windows[window_list_state + 1].id
             /\ c.cmd \in {"kill-pane", "select-pane"} =>
                   /\ Selected(panes, pane_list_state)
                   /\ c.target = panes[pane_list_state + 1].id
    /\ state = "Normal" =>
          /\ state' \in {"InputRenameSession", "ConfirmDeleteSession",
                          "InputNewWindow"} =>
                Selected(sessions, session_list_state)
          /\ state' \in {"InputRenameWindow", "ConfirmDeleteWindow"} =>
                Selected(windows, window_list_state)
          /\ state' = "ConfirmDeletePane" => Selected(panes, pane_list_state)

\* C8: no write that targets an existing resource is issued without a
\* current selection supplying its target: rename and delete need a selected
\* item at their level, create window a selected session, create pane a
\* selected window; with the selection missing the prompt is not opened or
\* the write is skipped.
C8_WritesNeedSelection == [][C8_Step]_vars

\* C8 happens: a confirmed delete killed the pane that was selected.
C8_Witness ==
    /\ event = "y" /\ Len(cmds) >= 1
    /\ cmds[1].cmd = "kill-pane" /\ cmds[1].ok

\* the handler's refresh_panes_only ran (a list-panes read on its own)
RanPanesOnly == ~RanRefreshAll /\ Issued(cmds, "list-panes")

\* a repair that was handed cursor c over the new list kept it / clamped it
Kept(c, list, sel) == list # <<>> /\ c # None /\ c < Len(list) => sel = c
Clamped(c, list, sel) == list # <<>> /\ c >= Len(list) => sel = Len(list) - 1

\* C9: when a list is replaced by one of length newLen > 0 and the cursor c
\* before satisfies c < newLen, the repair leaves the cursor at c, at every
\* level and in every refresh.
C9_RepairKeeps ==
    /\ RanRefreshAll =>
          /\ Kept(found.s, sessions, session_list_state)
          /\ Kept(found.w, windows, window_list_state)
          /\ Kept(found.p, panes, pane_list_state)
    /\ RanPanesOnly => Kept(found.p, panes, pane_list_state)

\* C9 happens: a refresh_all was handed the session cursor 1 and the pane
\* cursor 0, read two sessions and two panes, and left both cursors there.
C9_Witness ==
    /\ RanRefreshAll
    /\ found.s = 1 /\ Len(sessions) = 2 /\ session_list_state = 1
    /\ found.p = 0 /\ Len(panes) = 2 /\ pane_list_state = 0

\* C10: when a list is replaced by one of length newLen > 0 and the cursor c
\* before satisfies c >= newLen, the repair sets the cursor to newLen - 1
\* (not 0); so three panes under cursor 2, read again as two panes by
\* refresh_panes_only, end under cursor 1.
C10_RepairClamps ==
    /\ RanRefreshAll =>
          /\ Clamped(found.s, sessions, session_list_state)
          /\ Clamped(found.w, windows, window_list_state)
          /\ Clamped(found.p, panes, pane_list_state)
    /\ RanPanesOnly => Clamped(found.p, panes, pane_list_state)

\* C10 happens: a step in the window list ran refresh_panes_only with the
\* pane cursor at 2, read two panes and left the cursor at 1.
C10_Witness ==
    /\ event \in {"j", "k"} /\ focus = "Windows" /\ RanPanesOnly
    /\ found.p = 2 /\ Len(panes) = 2 /\ pane_list_state = 1

\* the selections the attach of the focused level needs
Attachable ==
    CASE focus = "Sessions" -> Selected(sessions, session_list_state)
      [] focus = "Windows" -> /\ Selected(sessions, session_list_state)
                              /\ Selected(windows, window_list_state)
      [] focus = "Panes" -> /\ Selected(sessions, session_list_state)
                            /\ Selected(windows, window_list_state)
                            /\ Selected(panes, pane_list_state)

\* Enter in Normal mode: lists and cursors stay; with the selections of the
\* focused level present a target is recorded and the quit flag set in the
\* same step, with one missing no target is recorded and the loop goes on
C11_Step ==
    event' = "Enter" =>
       /\ sessions' = sessions /\ windows' = windows /\ panes' = panes
       /\ session_list_state' = session_list_state
       /\ window_list_state' = window_list_state
       /\ pane_list_state' = pane_list_state
       /\ Attachable => target_attach'.some /\ should_quit'
       /\ ~Attachable => ~target_attach'.some /\ ~should_quit'

\* C11: attach leaves the three lists and the three cursors unchanged; if the
\* selections required by the focused level exist it records the target and
\* sets the quit flag in the same step, otherwise it records no target and
\* does not quit; hence a recorded target implies the quit flag in every
\* reachable state.
C11_AttachFrame ==
    /\ [](target_attach.some => should_quit)
    /\ [][C11_Step]_vars

C11_Witness ==
    /\ event = "Enter" /\ focus = "Windows" /\ sessions # <<>>
    /\ windows # <<>> /\ target_attach.some /\ should_quit

\* the selected session and window (where selected)
SelSession == Item(sessions, session_list_state)
SelWindow == Item(windows, window_list_state)

\* text of the form "session:window" for the selected session and window,
\* the window given by its id or by its name
SessionWindowForm(t) ==
    \/ t = SelSession.name \o <<":">> \o SelWindow.id
    \/ t = SelSession.name \o <<":">> \o SelWindow.name

\* the claim as stated: Sessions records the session name, Windows records
\* "session:window"
C12_Original ==
    event = "Enter" /\ target_attach.some =>
       /\ focus = "Sessions" => target_attach.val = SelSession.name
       /\ focus = "Windows" => SessionWindowForm(target_attach.val)

\* C12 (amended): the target recorded by attach is the selected session's
\* name with the focus on Sessions and with the focus on Windows alike; with
\* the focus on Windows the selected window is named by a select-window on
\* its id issued before the target is recorded (none with the focus on
\* Sessions), and the hand-off passes the recorded target to tmux as it is.
C12_Target ==
    /\ event = "Enter" /\ target_attach.some =>
          /\ focus \in {"Sessions", "Windows"} =>
                target_attach.val = SelSession.name
          /\ focus = "Sessions" => cmds = <<>>
          /\ focus = "Windows" =>
                /\ Len(cmds) = 1 /\ cmds[1].cmd = "select-window"
                /\ cmds[1].target = SelWindow.id
    /\ event = "exit" /\ target_attach.some =>
          /\ Len(cmds) = 1 /\ cmds[1].cmd \in {"attach", "switch-client"}
          /\ cmds[1].target = target_attach.val
          /\ focus \in {"Sessions", "Windows"} =>
                cmds[1].target = SelSession.name

C12_Witness ==
    /\ event = "exit" /\ focus = "Windows" /\ target_attach.some
    /\ Len(sessions) = 2 /\ session_list_state = 1 /\ cmds[1].cmd = "attach"

Reads == {"list-sessions", "list-windows", "list-panes"}

\* the log holds a read of the server: a refresh ran
RanRefresh(log) == \E i \in 1..Len(log) : log[i].cmd \in Reads

\* a poll timeout runs no command and changes nothing it shows
C13_Timeout ==
    event' = "timeout" =>
       /\ cmds' = <<>>
       /\ UNCHANGED <<sessions, windows, panes, session_list_state,
                      window_list_state, pane_list_state, focus, state>>

\* a refresh in a loop iteration has one of the triggers
C13_Triggers ==
    RanRefresh(cmds') =>
       \/ event' = "r"
       \/ event' \in {"j", "k"} /\ focus \in {"Sessions", "Windows"}
       \/ event' \in {"submit", "y"}
       \/ event' = "n" /\ focus = "Panes"

\* changing the focus and typing in a prompt run no command and leave the
\* lists and cursors
C13_NoTrigger ==
    event' \in {"Tab", "BackTab", "Char", "Backspace"} =>
       /\ cmds' = <<>>
       /\ UNCHANGED <<sessions, windows, panes, session_list_state,
                      window_list_state, pane_list_state>>

\* C13: a poll timeout with no key event issues no external command and
\* leaves lists, cursors, focus and mode unchanged; a refresh is only ever
\* triggered by 'r', by navigation at the Sessions or Windows level, or by the
\* completion of a mutating action; changing focus or typing in a prompt
\* never refreshes.
C13_NoTimerRefresh == [][C13_Timeout /\ C13_Triggers /\ C13_NoTrigger]_vars

C13_Witness ==
    /\ event = "timeout" /\ state = "InputNewWindow" /\ cmds = <<>>
    /\ Len(sessions) = 2 /\ input_buffer # <<>>

\* the two moves from cursor c over n items stay off the wrap boundary
NoWrapDownUp(c, n) == c # None /\ c + 1 <= n - 1
NoWrapUpDown(c, n) == c # None /\ c - 1 >= 0

\* C14: on an unchanged list of length len >= 1 with a set in-range cursor c,
\* next() followed by prev(), and prev() followed by next(), return the cursor
\* to c whenever the two moves do not cross the wrap boundary.
C14_NextPrevInverse ==
    /\ event = "next,prev" /\ NoWrapDownUp(found.p, Len(panes))
          => pane_list_state = found.p
    /\ event = "prev,next" /\ NoWrapUpDown(found.p, Len(panes))
          => pane_list_state = found.p

C14_Witness ==
    /\ event = "prev,next" /\ Len(panes) = 3 /\ found.p = 1
    /\ pane_list_state = 1

\* C15: on a list with exactly one element, next() and prev() always leave
\* the cursor at index 0, from any prior cursor value (unset or 0) and
\* however many times they are applied.
C15_SingleItem ==
    Len(panes) = 1 /\ event # "new" => pane_list_state = 0

C15_Witness ==
    /\ Len(panes) = 1 /\ event = "prev" /\ found.p = None /\ pane_list_state = 0

\* the places of character d in s, and the k-th of them from the left (0 for
\* k = 0, one past the end for k past the last)
Cuts(s, d) == {i \in 1..Len(s) : s[i] = d}
Cut(s, d, k) ==
    IF k = 0 THEN 0
    ELSE IF k > Cardinality(Cuts(s, d)) THEN Len(s) + 1
    ELSE CHOOSE i \in Cuts(s, d) :
            Cardinality({j \in Cuts(s, d) : j < i}) = k - 1

\* the k-th stretch of s between two d's (or an end of s)
Stretch(s, d, k) == SubSeq(s, Cut(s, d, k - 1) + 1, Cut(s, d, k) - 1)
Stretches(s, d) == Cardinality(Cuts(s, d)) + 1

\* the text the read returned and its non-empty lines, by their places
Returned == Trim(listed.out)
FullLines ==
    {k \in 1..Stretches(Returned, Newline) : Stretch(Returned, Newline, k) # <<>>}
FullLine(i) ==
    Stretch(Returned, Newline,
            CHOOSE k \in FullLines : Cardinality({j \in FullLines : j < k}) = i - 1)

\* field k of a line, where it has one
HasField(line, k) == k <= Stretches(line, Delim)
Field(line, k) == IF HasField(line, k) THEN Stretch(line, Delim, k) ELSE <<>>
Flag(line, k) == HasField(line, k) /\ Stretch(line, Delim, k) = <<"1">>

\* C16: parsing the output of a read produces exactly one record per
\* non-empty line, in line order: the fields are the '|'-separated parts by
\* position, a missing trailing field defaults to the empty string ("0" for
\* the session window count, false for the active flags), the active flag is
\* true only when its field is exactly "1", and no line is dropped.
C16_Parsing ==
    listed.ok /\ listed.up =>
       /\ event = "list-sessions" =>
             /\ Len(sessions) = Cardinality(FullLines)
             /\ \A i \in 1..Len(sessions) :
                   LET l == FullLine(i)
                   IN /\ sessions[i].id = Field(l, 1)
                      /\ sessions[i].name = Field(l, 2)
                      /\ sessions[i].count =
                            IF HasField(l, 3) THEN Field(l, 3) ELSE <<"0">>
                      /\ sessions[i].created = Field(l, 4)
       /\ event = "list-windows" =>
             /\ Len(windows) = Cardinality(FullLines)
             /\ \A i \in 1..Len(windows) :
                   LET l == FullLine(i)
                   IN /\ windows[i].id = Field(l, 1)
                      /\ windows[i].name = Field(l, 2)
                      /\ windows[i].active = Flag(l, 3)
                      /\ windows[i].layout = Field(l, 4)
       /\ event = "list-panes" =>
             /\ Len(panes) = Cardinality(FullLines)
             /\ \A i \in 1..Len(panes) :
                   LET l == FullLine(i)
                   IN /\ panes[i].id = Field(l, 1)
                      /\ panes[i].width = Field(l, 2)
                      /\ panes[i].height = Field(l, 3)
                      /\ panes[i].current_path = Field(l, 4)
                      /\ panes[i].current_command = Field(l, 5)
                      /\ panes[i].active = Flag(l, 6)

C16_Witness ==
    /\ event = "list-windows" /\ listed.ok /\ listed.up
    /\ listed.out = <<Delim, Delim, "1", Newline, Newline, "1">>
    /\ Len(windows) = 2 /\ windows[1].active /\ windows[1].layout = <<>>
    /\ windows[2].id = <<"1">> /\ ~windows[2].active

\* the reads of a log: what is left of it from its list-sessions on
ReadsOf(log) ==
    LET k == CHOOSE k \in 1..Len(log) :
                 log[k].cmd = "list-sessions"
                 /\ \A j \in 1..(k - 1) : log[j].cmd # "list-sessions"
    IN SubSeq(log, k, Len(log))

\* C17: within one refresh_all the reads are issued in the order
\* list-sessions, list-windows, list-panes; list-windows is scoped to the id
\* of the session under the repaired cursor in the session list just fetched
\* and list-panes to the id of the window under the repaired cursor in the
\* window list just fetched, never to an id of the lists before.
C17_ReadOrder ==
    RanRefreshAll =>
       LET rd == ReadsOf(cmds)
       IN /\ Len(rd) <= 3
          /\ \A i \in 1..Len(rd) :
                rd[i].cmd = <<"list-sessions", "list-windows", "list-panes">>[i]
          /\ Len(rd) >= 2 <=> sessions # <<>>
          /\ Len(rd) >= 2 => rd[2].target = SelSession.id
          /\ Len(rd) = 3 <=> windows # <<>>
          /\ Len(rd) = 3 => rd[3].target = SelWindow.id

\* C17 happens: the cursor stood on the second session, one session is left
\* and its windows and panes are read under the repaired cursor
C17_Witness ==
    /\ event = "r" /\ found.s = 1 /\ Len(sessions) = 1 /\ session_list_state = 0
    /\ Len(cmds) = 3 /\ cmds[2].target = sessions[1].id
    /\ cmds[3].target = windows[window_list_state + 1].id

\* 1 where the list holds an item, else 0
Count(list) == IF list # <<>> THEN 1 ELSE 0

\* the claim as stated: one or two invocations for every navigation key on
\* Sessions or Windows
C18_Original ==
    event \in {"j", "k"} /\ focus \in {"Sessions", "Windows"} =>
       Len(cmds) \in 1..2

\* C18 (amended): a navigation key with the focus on Sessions performs one to
\* three invocations (list-sessions, list-windows when a session is listed,
\* list-panes when a window is listed); with the focus on Windows it performs
\* one (list-panes) when a window is selected and none when there is none.
C18_NavInvocations ==
    event \in {"j", "k"} =>
       /\ focus = "Sessions" =>
             /\ Len(cmds) = 1 + Count(sessions) + Count(windows)
             /\ Len(cmds) \in 1..3
             /\ \A i \in 1..Len(cmds) : cmds[i].cmd \in Reads
       /\ focus = "Windows" =>
             /\ Len(cmds) = Count(windows)
             /\ \A i \in 1..Len(cmds) : cmds[i].cmd = "list-panes"

C18_Witness ==
    /\ event = "j" /\ focus = "Sessions" /\ Len(cmds) = 3
    /\ \A i \in 1..3 : cmds[i].ok

C19_Step ==
    event' \in {"j", "k"} /\ focus = "Panes" =>
       LET n == Len(panes)
       IN /\ cmds' = <<>>
          /\ UNCHANGED <<sessions, windows, panes, session_list_state,
                         window_list_state>>
          /\ pane_list_state' =
                IF n = 0 THEN pane_list_state
                ELSE IF event' = "j" THEN StepDown(pane_list_state, n)
                ELSE StepUp(pane_list_state, n)

\* C19: a navigation step with focus on Panes only moves the pane cursor
\* (with wrap-around, no-op on an empty list): it issues no external command
\* and leaves the three lists, the session cursor and the window cursor
\* unchanged.
C19_PaneNav == [][C19_Step]_vars

\* C19 happens: over two panes a step down has wrapped to the first
C19_Witness ==
    /\ event = "j" /\ focus = "Panes" /\ Len(panes) = 2 /\ pane_list_state = 0
    /\ cmds = <<>>

SelPane == Item(panes, pane_list_state)

C20_Step ==
    /\ event' = "Enter" /\ focus = "Panes" =>
          IF Attachable
          THEN /\ ~should_quit /\ should_quit'
               /\ Len(cmds') = 2
               /\ cmds'[1].cmd = "select-window" /\ cmds'[1].target = SelWindow.id
               /\ cmds'[2].cmd = "select-pane" /\ cmds'[2].target = SelPane.id
          ELSE cmds' = <<>> /\ ~should_quit'
    /\ should_quit =>
          ~Issued(cmds', "select-window") /\ ~Issued(cmds', "select-pane")

\* C20: attach with focus on Panes, with a session, a window and a pane
\* selected, issues select-window for the selected window and then
\* select-pane for the selected pane, in that order and both before the quit
\* flag is set (none once it is set); with one of the three selections
\* missing neither command is issued.
C20_AttachPane == [][C20_Step]_vars

C20_Witness ==
    /\ event = "Enter" /\ focus = "Panes" /\ should_quit /\ Len(cmds) = 2
    /\ cmds[1].cmd = "select-window" /\ cmds[1].ok
    /\ cmds[2].cmd = "select-pane" /\ cmds[2].ok
    /\ Len(panes) = 2 /\ pane_list_state = 1

\* the focus order of the three panels, and the place of a focus in it
FocusOrder == <<"Sessions", "Windows", "Panes">>
Place(f) == CHOOSE i \in 1..3 : FocusOrder[i] = f
After(f) == FocusOrder[(Place(f) % 3) + 1]

ListsAndCursors ==
    <<sessions, windows, panes, session_list_state, window_list_state,
      pane_list_state>>

\* C21: cycle_focus moves the focus to its successor in the order Sessions ->
\* Windows -> Panes -> Sessions; cycle_focus_back moves it to the focus whose
\* successor it was; the pair applied in either order, and either method
\* applied three times, leaves the focus where it was; and no application of
\* them changes a list or a cursor.
C21_Step ==
    /\ event' = "cycle_focus" => focus' = After(focus)
    /\ event' = "cycle_focus_back" => After(focus') = focus
    /\ event' \in {"cycle_focus,cycle_focus_back", "cycle_focus_back,cycle_focus",
                   "cycle_focus x3", "cycle_focus_back x3"} => focus' = focus
    /\ ListsAndCursors' = ListsAndCursors

C21_FocusCycle == [][C21_Step]_vars

\* the focus has gone from Panes round to Sessions and back again, over
\* lists that are not empty
C21_Witness ==
    /\ event = "cycle_focus_back,cycle_focus"
    /\ focus = "Sessions"
    /\ panes # <<>>
    /\ pane_list_state = 1

\* the last invocation of command c in the log (only where one is Issued)
LastOf(log, c) ==
    log[CHOOSE i \in 1..Len(log) :
           log[i].cmd = c /\ \A j \in (i + 1)..Len(log) : log[j].cmd # c]

\* the id under the cursor of a list, the empty text when nothing is
IdUnder(list, sel) == IF Selected(list, sel) THEN Item(list, sel).id ELSE NoName

\* a child list after a step that issued its read c: the read was for the
\* id now under the parent's cursor, and a failed read left the child empty
ReadForParent(log, c, parent, sel, child) ==
    /\ Selected(parent, sel)
    /\ LastOf(log, c).target = Item(parent, sel).id
    /\ ~LastOf(log, c).ok => child = <<>>

\* C22: the child lists are never stale relative to the parent selection.
\* In every state a list whose parent has no selection is empty; and over
\* every step of the loop, a step that issues list-windows issues the last
\* one for the id of the session under the cursor it leaves, and the windows
\* it leaves are that read's result (empty when it failed, the ids of the
\* server's windows of that session when the refresh was not raced), while a step
\* that issues none leaves the windows and the selected session's id as they
\* were or leaves no session selected; the same for list-panes, the panes
\* and the window under the window cursor.
C22_Step ==
    /\ IF Issued(cmds', "list-windows")
       THEN /\ ReadForParent(cmds', "list-windows", sessions',
                             session_list_state', windows')
            /\ (LastOf(cmds', "list-windows").ok /\ RanRefreshAll' /\ ~raced')
                  => Ids(windows') = Ids(listed'.windows)
       ELSE \/ ~Selected(sessions', session_list_state')
            \/ /\ windows' = windows
               /\ IdUnder(sessions', session_list_state')
                     = IdUnder(sessions, session_list_state)
    /\ IF Issued(cmds', "list-panes")
       THEN /\ ReadForParent(cmds', "list-panes", windows',
                             window_list_state', panes')
            /\ (LastOf(cmds', "list-panes").ok /\ RanRefreshAll' /\ ~raced')
                  => Ids(panes') = Ids(listed'.panes)
       ELSE \/ ~Selected(windows', window_list_state')
            \/ /\ panes' = panes
               /\ IdUnder(windows', window_list_state')
                     = IdUnder(windows, window_list_state)

C22_Orphans ==
    /\ ~Selected(sessions, session_list_state) => windows = <<>>
    /\ ~Selected(windows, window_list_state) => panes = <<>>

C22_ChildrenCurrent == []C22_Orphans /\ [][C22_Step]_vars

\* a step down the windows has put the cursor on another window and the
\* panes shown are the ones read for it
C22_Witness ==
    /\ event = "j"
    /\ focus = "Windows"
    /\ window_list_state = 1
    /\ Issued(cmds, "list-panes")
    /\ LastOf(cmds, "list-panes").ok
    /\ LastOf(cmds, "list-panes").target = IdUnder(windows, window_list_state)
    /\ panes # <<>>

Modes == InputModes \cup ConfirmModes

Panels == <<ListsAndCursors, focus>>

\* C23: a step that enters an Input or Confirm mode or stays in one changes
\* no list, no cursor and not the focus and issues no command; and the step
\* that leaves the mode by Enter or 'y' issues its rename or kill first of
\* all, for the item under the cursor the mode was left with: the session's
\* name, the window's id, the pane's id. The selection is thus the same from
\* the opening of the prompt to the write.
C23_Step ==
    /\ state' \in Modes => Panels' = Panels /\ cmds' = <<>>
    /\ (state \in Modes /\ event' \in {"submit", "y"}) =>
          /\ \A i \in 2..Len(cmds') : cmds'[i].cmd \notin Writes
          /\ \A i \in 1..Len(cmds') :
                LET c == cmds'[i]
                IN /\ c.cmd = "rename-session" =>
                         /\ state = "InputRenameSession"
                         /\ c.target = SelSession.name
                   /\ c.cmd = "kill-session" =>
                         /\ state = "ConfirmDeleteSession"
                         /\ c.target = SelSession.name
                   /\ c.cmd = "rename-window" =>
                         /\ state = "InputRenameWindow"
                         /\ c.target = SelWindow.id
                   /\ c.cmd = "kill-window" =>
                         /\ state = "ConfirmDeleteWindow"
                         /\ c.target = SelWindow.id
                   /\ c.cmd = "kill-pane" =>
                         /\ state = "ConfirmDeletePane"
                         /\ c.target = SelPane.id

C23_ModalFrame == [][C23_Step]_vars

\* a name was typed into the rename prompt of a window and submitted: the
\* window under the cursor was renamed
C23_Witness ==
    /\ event = "submit"
    /\ Len(cmds) >= 1
    /\ cmds[1].cmd = "rename-window" /\ cmds[1].ok
    /\ cmds[1].arg = <<"a">>
    /\ window_list_state = 1

\* C24: cancelling a prompt (Esc in an Input mode, 'n' or Esc in a Confirm
\* mode) puts the mode back to Normal, issues no command at all, neither a
\* write nor a read, and leaves the lists, the cursors and the focus as they
\* were.
C24_Step ==
    event' \in {"Esc", "cancel"} =>
       /\ state \in Modes
       /\ event' = "Esc" <=> state \in InputModes
       /\ state' = "Normal"
       /\ cmds' = <<>>
       /\ Panels' = Panels

C24_Cancel == [][C24_Step]_vars

\* a prompt with text typed into it was abandoned with Esc, over lists that
\* are not empty
C24_Witness ==
    /\ event = "Esc"
    /\ state = "Normal"
    /\ input_buffer = <<"a">>
    /\ windows # <<>>
    /\ panes # <<>>

\* the text holds nothing but whitespace (the empty text included)
Blank(text) == \A i \in 1..Len(text) : text[i] \in White

\* the text from its first to its last character that is not whitespace
Core(text) ==
    LET solid == {i \in 1..Len(text) : text[i] \notin White}
        lo == CHOOSE i \in solid : \A k \in solid : i <= k
        hi == CHOOSE i \in solid : \A k \in solid : k <= i
    IN SubSeq(text, lo, hi)

\* C25: the submission of an Input prompt ends in Normal mode and runs
\* refresh_all whatever the text; with a text that is empty or all whitespace
\* it issues no write; with any other text it issues one write, before the
\* refresh, whose text argument is the typed text without the whitespace
\* before its first and after its last other character.
C25_Step ==
    event' = "submit" =>
       /\ state' = "Normal"
       /\ RanRefreshAll'
       /\ IF Blank(input_buffer)
          THEN \A k \in 1..Len(cmds') : cmds'[k].cmd \notin Writes
          ELSE /\ cmds'[1].cmd \in Writes
               /\ cmds'[1].arg = Core(input_buffer)
               /\ cmds'[2].cmd = "list-sessions"

C25_Submission == [][C25_Step]_vars

\* a name typed with a space on either side was submitted to rename a
\* window, and the window was renamed to the name without the spaces
C25_Witness ==
    /\ event = "submit"
    /\ input_buffer = <<" ", "a", " ">>
    /\ cmds[1].cmd = "rename-window" /\ cmds[1].ok
    /\ cmds[1].arg = <<"a">>
    /\ state = "Normal"

\* the index a carried-over cursor i ends at in a list of length len > 0
CarriedTo(i, len) == IF i < len THEN i ELSE len - 1

\* C26: over every step after which a different session is under the session
\* cursor, the window cursor, if one was set and the new windows list is not
\* empty, is the index it had before when that is in range for the new list
\* and the new last index otherwise: it is neither reset to the first window
\* nor moved to any other; and likewise the pane cursor over every step
\* after which a different window is under the window cursor.
C26_Step ==
    /\ ( /\ Selected(sessions, session_list_state)
         /\ Selected(sessions', session_list_state')
         /\ IdUnder(sessions', session_list_state')
               # IdUnder(sessions, session_list_state)
         /\ window_list_state # None
         /\ windows' # <<>> )
          => window_list_state' = CarriedTo(window_list_state, Len(windows'))
    /\ ( /\ Selected(windows, window_list_state)
         /\ Selected(windows', window_list_state')
         /\ IdUnder(windows', window_list_state')
               # IdUnder(windows, window_list_state)
         /\ pane_list_state # None
         /\ panes' # <<>> )
          => pane_list_state' = CarriedTo(pane_list_state, Len(panes'))

C26_CarryOver == [][C26_Step]_vars

\* the selected session was deleted with the window cursor on its second
\* window; the session that took its place has two windows and the cursor
\* is on the second of them
C26_Witness ==
    /\ event = "y"
    /\ cmds[1].cmd = "kill-session" /\ cmds[1].ok
    /\ Undisturbed
    /\ sessions # <<>>
    /\ Len(windows) = 2
    /\ found.w = 1
    /\ window_list_state = 1

====
